---- MODULE Spec2Model ----
(***************************************************************************)
(* capibot-voice-service: the transcription request pipeline.              *)
(*                                                                         *)
(*   app/services/webhook.py   the delivery notifier (WebhookService)     *)
(*   app/auth.py               the credential store and validate_api_key  *)
(*   app/main.py               the /transcribe handler                    *)
(*   app/services/transcription.py  the engine wrapper                    *)
(*                                                                         *)
(* Four specifications share the definitions below.                       *)
(*   SpecNotify  one call of a WebhookService method against an endpoint  *)
(*               whose answer to every attempt is drawn beforehand        *)
(*   SpecAuth    the credential store under the admin operations, then    *)
(*               one call of validate_api_key with all three candidates   *)
(*   SpecValidate  one call of validate_audio_type                        *)
(*   Spec        two requests going through POST /transcribe               *)
(***************************************************************************)
EXTENDS Integers, Sequences, FiniteSets, TLC

VARIABLES
    retries,    \* WebhookService.retries (settings.WEBHOOK_RETRIES)
    call,       \* SpecNotify: the WebhookService call under observation
    api_keys,   \* the api_keys collection, in insertion order; _id = position
    auth,       \* SpecAuth: the validate_api_key call under observation
    req,        \* Spec: the requests to /transcribe
    validation, \* SpecValidate: the validate_audio_type call under observation
    deactivation \* SpecAuth: the deactivate_api_key call last made

vars == <<retries, call, api_keys, auth, req, validation, deactivation>>

(***************************************************************************)
(* Bounds of the model.                                                    *)
(***************************************************************************)
MaxRetries == 3
MaxDocs == 3
PoolSize == 1

(***************************************************************************)
(* Python values.                                                          *)
(***************************************************************************)
None == "<None>"

\* Python truthiness of an Optional[str]
Truthy(s) == s # None /\ s # ""

\* Python's `a or b`
PyOr(a, b) == IF Truthy(a) THEN a ELSE b

\* sum(s)
RECURSIVE SumSeq(_)
SumSeq(s) == IF s = <<>> THEN 0 ELSE Head(s) + SumSeq(Tail(s))

(***************************************************************************)
(* app/services/webhook.py                                                 *)
(***************************************************************************)

\* What one `await client.post(...)` can do: answer with a status code, or
\* raise.  httpx.TimeoutException and httpx.ConnectError are the two classes
\* the code names; "Exception" stands for every other Exception subclass.
StatusCodes == {200, 201, 202, 204, 400, 500}
PostExceptions == {"TimeoutException", "ConnectError", "Exception"}
Outcomes ==
    [exc : {"none"}, status_code : StatusCodes]
        \cup [exc : PostExceptions, status_code : {0}]

\* `response.status_code in [200, 201, 202]`
Delivered_Lenient(o) == o.exc = "none" /\ o.status_code \in {200, 201, 202, 204}
Delivered(o) == o.exc = "none" /\ o.status_code \in {200, 201, 202}

\* The except clauses of the retry loop: TimeoutException, ConnectError,
\* and `except Exception` for the rest.
Handled_Named(exc) == exc \in {"TimeoutException", "ConnectError"}
Handled(exc) == exc \in {"TimeoutException", "ConnectError", "Exception"}

\* `attempt < self.retries - 1`: whether the loop sleeps after a failed attempt
SleepsAfter(attempt, n) == attempt < n - 1

\* `wait_time = 2 ** attempt`
WaitTime_Linear(attempt) == 2 * attempt
WaitTime(attempt) == 2 ^ attempt

\* `range(self.retries)`
Range_Inclusive(n) == 0 .. n
Range(n) == 0 .. (n - 1)

\* The value a WebhookService method hands its caller: `ret` is the boolean
\* returned, `raised` the exception class that left the method ("none" when it
\* returned), `posts` the outcomes of the POSTs it issued, in order, and
\* `sleeps` the asyncio.sleep durations, in order.
Returned(ret, posts, sleeps) ==
    [ret |-> ret, raised |-> "none", posts |-> posts, sleeps |-> sleeps]
Raised(exc, posts, sleeps) ==
    [ret |-> FALSE, raised |-> exc, posts |-> posts, sleeps |-> sleeps]

\* The for loop of send_transcription_result from index `attempt` on; outs[i+1]
\* is what the endpoint does to attempt i.
RECURSIVE RetryLoop(_, _, _, _, _)
RetryLoop(n, outs, attempt, posts, sleeps) ==
    IF attempt \notin Range(n)
    THEN Returned(FALSE, posts, sleeps)
    ELSE LET o == outs[attempt + 1]
             sent == Append(posts, o)
         IN IF Delivered(o)
            THEN Returned(TRUE, sent, sleeps)
            ELSE IF o.exc # "none" /\ ~Handled(o.exc)
            THEN Raised(o.exc, sent, sleeps)
            ELSE RetryLoop(n, outs, attempt + 1, sent,
                           IF SleepsAfter(attempt, n)
                           THEN Append(sleeps, WaitTime(attempt))
                           ELSE sleeps)

send_transcription_result(n, outs) == RetryLoop(n, outs, 0, <<>>, <<>>)

\* send_error_notification: one POST inside one try/except Exception
\* A notification that would try a second time after a failure, for comparison
send_error_notification_Retrying(o) ==
    IF Delivered(o) THEN Returned(TRUE, <<o>>, <<>>)
    ELSE Returned(FALSE, <<o, o>>, <<WaitTime(0)>>)
send_error_notification(o) ==
    IF o.exc # "none" /\ ~Handled(o.exc)
    THEN Raised(o.exc, <<o>>, <<>>)
    ELSE Returned(Delivered(o), <<o>>, <<>>)

NoCall == [fn |-> "none", n |-> 0, outs |-> <<>>, res |-> Returned(FALSE, <<>>, <<>>)]

\* One call of send_transcription_result against an endpoint that would answer
\* the i-th POST it receives with outs[i]
CallSendResult ==
    /\ call = NoCall
    /\ \E outs \in [1 .. retries + 1 -> Outcomes] :
          call' = [fn |-> "send_transcription_result", n |-> retries, outs |-> outs,
                   res |-> send_transcription_result(retries, outs)]
    /\ UNCHANGED <<retries, api_keys, auth, req, validation, deactivation>>

\* One call of send_error_notification
CallSendError ==
    /\ call = NoCall
    /\ \E o \in Outcomes :
          call' = [fn |-> "send_error_notification", n |-> retries, outs |-> <<o>>,
                   res |-> send_error_notification(o)]
    /\ UNCHANGED <<retries, api_keys, auth, req, validation, deactivation>>

(***************************************************************************)
(* app/auth.py                                                             *)
(***************************************************************************)

\* secrets.token_urlsafe(32) draws the key; nothing in create_api_key
\* compares it with the keys already stored.
Tokens == {"k1", "k2", "k3"}
Names == {"alice"}

\* datetime.utcnow(): the time of the write
utcnow == "utcnow"

\* find_one's answer when no document matches (Python's None)
NoDoc == [_id |-> 0, key |-> None, name |-> None, active |-> FALSE, last_used |-> None]

\* The first document matching the filter {"key": api_key}
first_with_key(coll, api_key) ==
    IF \E i \in 1 .. Len(coll) : coll[i].key = api_key
    THEN coll[CHOOSE i \in 1 .. Len(coll) :
                 /\ coll[i].key = api_key
                 /\ \A j \in 1 .. (i - 1) : coll[j].key # api_key]
    ELSE NoDoc
find_one_IgnoringActive(coll, api_key) == first_with_key(coll, api_key)
\* api_keys_collection.find_one({"key": api_key, "active": True}): the first
\* matching document
find_one(coll, api_key) ==
    IF \E i \in 1 .. Len(coll) : coll[i].key = api_key /\ coll[i].active
    THEN coll[CHOOSE i \in 1 .. Len(coll) :
                 /\ coll[i].key = api_key /\ coll[i].active
                 /\ \A j \in 1 .. (i - 1) : ~(coll[j].key = api_key /\ coll[j].active)]
    ELSE NoDoc

\* update_one({"_id": id}, {"$set": {"last_used": datetime.utcnow()}})
touch_last_used(coll, id) ==
    [i \in 1 .. Len(coll) |->
        IF coll[i]._id = id THEN [coll[i] EXCEPT !.last_used = utcnow] ELSE coll[i]]

\* `api_key = api_key_header or api_key_auth or api_key_body`
select_api_key_BodyFirst(api_key_header, api_key_auth, api_key_body) ==
    PyOr(PyOr(api_key_body, api_key_auth), api_key_header)
select_api_key(api_key_header, api_key_auth, api_key_body) ==
    PyOr(PyOr(api_key_header, api_key_auth), api_key_body)

DetailKeyRequired ==
    "API key required. Provide it in X-API-Key header, Authorization header, or request body."
DetailInvalidKey == "Invalid or inactive API key"

\* What validate_api_key hands FastAPI: the document (raised = "none"), an
\* HTTPException with status_code and detail, or the store driver's exception;
\* `coll` is the collection afterwards.
AuthResult(raised, status_code, detail, key_doc, coll) ==
    [raised |-> raised, status_code |-> status_code, detail |-> detail,
     key_doc |-> key_doc, coll |-> coll]

\* validate_api_key; `write_ok` is whether the update_one of last_used succeeds
validate_api_key(coll, api_key_header, api_key_auth, api_key_body, write_ok) ==
    LET api_key == select_api_key(api_key_header, api_key_auth, api_key_body)
        key_doc == find_one(coll, api_key)
    IN IF ~Truthy(api_key)
       THEN AuthResult("HTTPException", 401, DetailKeyRequired, NoDoc, coll)
       ELSE IF key_doc = NoDoc
       THEN AuthResult("HTTPException", 401, DetailInvalidKey, NoDoc, coll)
       ELSE IF ~write_ok
       THEN AuthResult("PyMongoError", 500, "Internal Server Error", NoDoc, coll)
       ELSE AuthResult("none", 200, "", key_doc, touch_last_used(coll, key_doc._id))

\* create_api_key(name), with `api_key` the token drawn
create_api_key(coll, api_key, name) ==
    Append(coll, [_id |-> Len(coll) + 1, key |-> api_key, name |-> name,
                  active |-> TRUE, last_used |-> None])

\* deactivate_api_key(api_key): update_one({"key": api_key}, {"$set": {"active":
\* False}}) changes the first document with that key; modified_count counts it
\* only if it was active.  For comparison, deactivate_api_key_Toggling is an
\* update that would flip the flag.
deactivate_api_key_Toggling(coll, api_key) ==
    LET hit == first_with_key(coll, api_key)
    IN [ret |-> hit # NoDoc,
        coll |-> [i \in 1 .. Len(coll) |->
                    IF coll[i]._id = hit._id THEN [coll[i] EXCEPT !.active = ~@]
                    ELSE coll[i]]]
deactivate_api_key(coll, api_key) ==
    LET hit == first_with_key(coll, api_key)
    IN [ret |-> hit # NoDoc /\ hit.active,
        coll |-> [i \in 1 .. Len(coll) |->
                    IF coll[i]._id = hit._id THEN [coll[i] EXCEPT !.active = FALSE]
                    ELSE coll[i]]]

CandValues == {None, ""} \cup Tokens

NoAuth ==
    [called |-> FALSE, api_key_header |-> None, api_key_auth |-> None,
     api_key_body |-> None, write_ok |-> TRUE, before |-> <<>>,
     res |-> AuthResult("none", 0, "", NoDoc, <<>>)]

\* No call of deactivate_api_key yet.  `ret` is what the call returned,
\* `repeated` whether a record of that key had already been deactivated.
NoDeactivation == [called |-> FALSE, api_key |-> None, ret |-> FALSE, repeated |-> FALSE]

\* POST /admin/create-api-key
CreateApiKey ==
    /\ Len(api_keys) < MaxDocs
    /\ \E api_key \in Tokens, name \in Names :
          api_keys' = create_api_key(api_keys, api_key, name)
    /\ UNCHANGED <<retries, call, auth, req, validation, deactivation>>

\* POST /admin/deactivate-api-key
DeactivateApiKey ==
    /\ \E api_key \in Tokens :
          LET res == deactivate_api_key(api_keys, api_key)
          IN /\ api_keys' = res.coll
             /\ deactivation' =
                   [called |-> TRUE, api_key |-> api_key, ret |-> res.ret,
                    repeated |-> \E i \in 1 .. Len(api_keys) :
                                    api_keys[i].key = api_key /\ ~api_keys[i].active]
    /\ UNCHANGED <<retries, call, auth, req, validation>>

\* One call of validate_api_key with the three candidates FastAPI extracted
CallValidateApiKey ==
    /\ ~auth.called
    /\ \E h \in CandValues, a \in CandValues, b \in CandValues, write_ok \in BOOLEAN :
          LET res == validate_api_key(api_keys, h, a, b, write_ok)
          IN /\ auth' = [called |-> TRUE, api_key_header |-> h, api_key_auth |-> a,
                         api_key_body |-> b, write_ok |-> write_ok,
                         before |-> api_keys, res |-> res]
             /\ api_keys' = res.coll
    /\ UNCHANGED <<retries, call, req, validation, deactivation>>

(***************************************************************************)
(* Python strings.                                                         *)
(***************************************************************************)
Char(s, i) == SubSeq(s, i, i)

UpperCase == "ABCDEFGHIJKLMNOPQRSTUVWXYZ"
LowerCase == "abcdefghijklmnopqrstuvwxyz"
Digits == "0123456789"
Whitespace == {" ", "\t", "\n", "\r"}

\* The characters of s
Chars(s) == {Char(s, i) : i \in 1 .. Len(s)}

\* str.lower()
LowerChar(c) ==
    IF c \in Chars(UpperCase)
    THEN Char(LowerCase, CHOOSE i \in 1 .. Len(UpperCase) : Char(UpperCase, i) = c)
    ELSE c
RECURSIVE lower(_)
lower(s) == IF s = "" THEN "" ELSE LowerChar(Head(s)) \o lower(Tail(s))

\* str.strip()
RECURSIVE lstrip(_)
lstrip(s) == IF s # "" /\ Head(s) \in Whitespace THEN lstrip(Tail(s)) ELSE s
RECURSIVE rstrip(_)
rstrip(s) ==
    IF s # "" /\ Char(s, Len(s)) \in Whitespace
    THEN rstrip(SubSeq(s, 1, Len(s) - 1))
    ELSE s
strip(s) == rstrip(lstrip(s))

\* `sub in s`
Contains(s, sub) ==
    \E i \in 1 .. (Len(s) - Len(sub) + 1) : SubSeq(s, i, i + Len(sub) - 1) = sub

\* str.rfind(c) + 1: the last position of character c in s, 0 if absent
LastIndex(s, c) ==
    IF c \in Chars(s)
    THEN CHOOSE i \in 1 .. Len(s) :
            Char(s, i) = c /\ \A j \in (i + 1) .. Len(s) : Char(s, j) # c
    ELSE 0

\* os.path.splitext(path)[1]: from the last dot of the last path component,
\* unless only dots precede it there
splitext_ext(path) ==
    LET sep == LastIndex(path, "/")
        dot == LastIndex(path, ".")
    IN IF dot > sep /\ \E i \in (sep + 1) .. (dot - 1) : Char(path, i) # "."
       THEN SubSeq(path, dot, Len(path))
       ELSE ""

\* str(n) for n >= 0
RECURSIVE IntStr(_)
IntStr(n) ==
    IF n < 10 THEN Char(Digits, n + 1)
    ELSE IntStr(n \div 10) \o Char(Digits, (n % 10) + 1)

\* How an f-string shows an Optional[str]
Shown(x) == IF x = None THEN "None" ELSE x

(***************************************************************************)
(* app/config.py                                                           *)
(***************************************************************************)
MAX_FILE_SIZE == 26214400
ALLOWED_AUDIO_TYPES ==
    {"audio/mpeg", "audio/wav", "audio/mp4", "audio/m4a", "audio/x-m4a", "audio/ogg"}
\* str(settings.ALLOWED_AUDIO_TYPES)
AllowedTypesShown ==
    "['audio/mpeg', 'audio/wav', 'audio/mp4', 'audio/m4a', 'audio/x-m4a', 'audio/ogg']"

(***************************************************************************)
(* app/main.py: the payload validator                                      *)
(***************************************************************************)
EXTENSION_TO_MIME ==
    [ext \in {".mp3", ".wav", ".m4a", ".mp4", ".ogg", ".flac"} |->
        CASE ext = ".mp3" -> "audio/mpeg"
          [] ext = ".wav" -> "audio/wav"
          [] ext = ".m4a" -> "audio/m4a"
          [] ext = ".mp4" -> "audio/mp4"
          [] ext = ".ogg" -> "audio/ogg"
          [] ext = ".flac" -> "audio/flac"]

\* A normalisation that lowercases without trimming, for comparison
normalize_content_type_NoStrip(content_type) ==
    IF ~Truthy(content_type) THEN None ELSE lower(content_type)
normalize_content_type(content_type) ==
    IF ~Truthy(content_type) THEN None ELSE lower(strip(content_type))

get_mime_from_extension(filename) ==
    IF ~Truthy(filename) THEN None
    ELSE LET ext == lower(splitext_ext(filename))
         IN IF ext \in DOMAIN EXTENSION_TO_MIME THEN EXTENSION_TO_MIME[ext] ELSE None

validate_audio_type(content_type, filename) ==
    LET normalized_type == normalize_content_type(content_type)
    IN IF Truthy(normalized_type) /\ normalized_type \in ALLOWED_AUDIO_TYPES
       THEN TRUE
       ELSE IF Truthy(filename)
       THEN LET mime_from_ext == get_mime_from_extension(filename)
            IN Truthy(mime_from_ext) /\ mime_from_ext \in ALLOWED_AUDIO_TYPES
       ELSE FALSE

\* The declared content-types a client can send: every allow-listed type
\* in three casings with whitespace around it, and some that are not
\* allow-listed.  `base` is the allow-listed type the value was made from.
UpperChar(c) ==
    IF c \in Chars(LowerCase)
    THEN Char(UpperCase, CHOOSE i \in 1 .. Len(LowerCase) : Char(LowerCase, i) = c)
    ELSE c
RECURSIVE upper(_)
upper(s) == IF s = "" THEN "" ELSE UpperChar(Head(s)) \o upper(Tail(s))
capitalize(s) == IF s = "" THEN "" ELSE UpperChar(Head(s)) \o Tail(s)

Paddings == {<<"", "">>, <<" ", "  ">>, <<"\t", "\r\n">>}
DressedTypes ==
    UNION { { [content_type |-> pad[1] \o cased \o pad[2], base |-> t] :
                cased \in {t, upper(t), capitalize(t)} } :
            t \in ALLOWED_AUDIO_TYPES, pad \in Paddings }
OtherTypes ==
    { [content_type |-> ct, base |-> None] :
        ct \in {None, "", "   ", "application/octet-stream", "text/plain",
                "audio/flac", "audio/webm", "audio/mpeg; charset=binary"} }
ContentTypes == DressedTypes \cup OtherTypes

Filenames ==
    {None, "", "sample.mp3", "voice.WAV", "memo.m4a", "clip.Mp4", "talk.ogg",
     "song.flac", "clip.webm", "notes.txt", "noextension", ".mp3",
     "sample.mp3.txt", "my.talk.OGG"}

NoValidation ==
    [called |-> FALSE, content_type |-> None, base |-> None, filename |-> None,
     result |-> FALSE]

\* One call of validate_audio_type
CallValidateAudioType ==
    /\ ~validation.called
    /\ \E ct \in ContentTypes, filename \in Filenames :
          validation' = [called |-> TRUE, content_type |-> ct.content_type,
                         base |-> ct.base, filename |-> filename,
                         result |-> validate_audio_type(ct.content_type, filename)]
    /\ UNCHANGED <<retries, call, api_keys, auth, req, deactivation>>

(***************************************************************************)
(* app/services/transcription.py                                           *)
(***************************************************************************)

\* What self.model.transcribe(path, language="pt", fp16=False) can do: return
\* a result (text, language or no language key, the end times of the segments
\* in milliseconds) or raise.
EngineBehaviours ==
    { [exc |-> "none", msg |-> "", text |-> " ola mundo ", language |-> "pt",
       segments |-> <<1200, 2500>>],
      [exc |-> "none", msg |-> "", text |-> "", language |-> None,
       segments |-> <<>>],
      [exc |-> "FileNotFoundError",
       msg |-> "[Errno 2] No such file or directory: 'ffmpeg'",
       text |-> "", language |-> None, segments |-> <<>>],
      [exc |-> "FileNotFoundError",
       msg |-> "[Errno 2] No such file or directory: 'audio'",
       text |-> "", language |-> None, segments |-> <<>>],
      [exc |-> "RuntimeError", msg |-> "Failed to load audio: FFmpeg exited",
       text |-> "", language |-> None, segments |-> <<>>],
      [exc |-> "RuntimeError", msg |-> "cannot reshape tensor of 0 elements",
       text |-> "", language |-> None, segments |-> <<>>] }

NoEngine ==
    [exc |-> "not called", msg |-> "", text |-> "", language |-> None, segments |-> <<>>]

\* What a TranscriptionService method hands its caller: the tuple (text,
\* language, duration), or an HTTPException
Transcribed(text, language, duration) ==
    [raised |-> "none", status_code |-> 0, detail |-> "",
     text |-> text, language |-> language, duration |-> duration]
HTTPException(status_code, detail) ==
    [raised |-> "HTTPException", status_code |-> status_code, detail |-> detail,
     text |-> "", language |-> "", duration |-> 0]

FfmpegMissing ==
    "ffmpeg is required for audio transcription but is not installed. "
    \o "Please install ffmpeg: brew install ffmpeg (macOS) or apt-get install ffmpeg (Linux)"

\* transcribe_audio_file, with `e` what the engine does
transcribe_audio_file(e) ==
    IF e.exc = "none"
    THEN Transcribed(strip(e.text),
                     IF e.language = None THEN "pt" ELSE e.language,
                     IF e.segments # <<>> THEN e.segments[Len(e.segments)] ELSE 0)
    ELSE IF e.exc = "FileNotFoundError"
    THEN IF Contains(lower(e.msg), "ffmpeg")
         THEN HTTPException(500, FfmpegMissing)
         ELSE HTTPException(400, "Failed to transcribe audio: " \o e.msg)
    ELSE HTTPException(400, "Failed to transcribe audio: "
                            \o (IF Contains(lower(e.msg), "ffmpeg")
                                THEN FfmpegMissing ELSE e.msg))

\* binascii.a2b_base64 as base64.b64decode(s) uses it (validate=False):
\* characters outside the alphabet are skipped, a sufficient run of "=" ends
\* the data; "" when the string decodes, else the error's message.
Base64Alphabet == Chars(UpperCase) \cup Chars(LowerCase) \cup Chars(Digits) \cup {"+", "/"}
RECURSIVE b64decode_error(_, _, _, _)
b64decode_error(s, quad_pos, pads, ndata) ==
    IF s = ""
    THEN IF quad_pos = 0 THEN ""
         ELSE IF quad_pos = 1
         THEN "Invalid base64-encoded string: number of data characters ("
              \o IntStr(ndata) \o ") cannot be 1 more than a multiple of 4"
         ELSE "Incorrect padding"
    ELSE IF Head(s) = "="
    THEN IF quad_pos >= 2 /\ quad_pos + pads + 1 >= 4 THEN ""
         ELSE b64decode_error(Tail(s), quad_pos,
                              IF quad_pos >= 2 THEN pads + 1 ELSE pads, ndata)
    ELSE IF Head(s) \notin Base64Alphabet
    THEN b64decode_error(Tail(s), quad_pos, pads, ndata)
    ELSE b64decode_error(Tail(s), (quad_pos + 1) % 4, 0, ndata + 1)

\* str(e) of the OSError a failed write to the temporary file raises
OSErrorText == "[Errno 28] No space left on device"

\* str(e) of an HTTPException: "<status_code>: <detail>"
HTTPExceptionStr(x) == IntStr(x.status_code) \o ": " \o x.detail

\* transcribe_base64_audio, with `io_ok` whether the decoded bytes could be
\* written to the temporary file and `e` what the engine does.  `decoded` is
\* whether b64decode returned, `called` whether the engine was invoked, `left`
\* the temporary files left on disk.
transcribe_base64_audio(audio_base64, io_ok, e) ==
    LET bad == b64decode_error(audio_base64, 0, 0, 0)
        inner == transcribe_audio_file(e)
        wrap(msg) == HTTPException(400, "Failed to process base64 audio: " \o msg)
    IN IF bad # ""
       THEN [res |-> wrap(bad), decoded |-> FALSE, called |-> FALSE, left |-> 0]
       ELSE IF ~io_ok
       THEN [res |-> wrap(OSErrorText),
             decoded |-> TRUE, called |-> FALSE, left |-> 1]
       ELSE IF inner.raised # "none"
       THEN [res |-> wrap(HTTPExceptionStr(inner)),
             decoded |-> TRUE, called |-> TRUE, left |-> 0]
       ELSE [res |-> inner, decoded |-> TRUE, called |-> TRUE, left |-> 0]

\* The path tempfile.NamedTemporaryFile(delete=False, suffix=suffix) creates
temp_file_path(suffix) == "/tmp/tmpab12cd34" \o suffix

\* validate_audio_file(file_path), the file existing with file_size bytes
validate_audio_file(file_path, file_size) ==
    IF file_size > MAX_FILE_SIZE THEN FALSE
    ELSE lower(splitext_ext(file_path))
            \in {".mp3", ".wav", ".m4a", ".mp4", ".ogg", ".flac"}

(***************************************************************************)
(* app/main.py: POST /transcribe                                           *)
(***************************************************************************)

\* The payloads a request can carry: `audio` (an upload with filename,
\* content_type and size) or request_data.audio_base64, or neither.
NoUpload == [filename |-> None, content_type |-> None, size |-> 0]
Uploads ==
    { [filename |-> "sample.mp3", content_type |-> "audio/mpeg", size |-> 13],
      [filename |-> "voice.WAV", content_type |-> "application/octet-stream", size |-> 13],
      [filename |-> "clip.webm", content_type |-> " Audio/OGG ", size |-> 13],
      [filename |-> "notes.txt", content_type |-> "text/plain", size |-> 13],
      [filename |-> "sample.mp3", content_type |-> "audio/mpeg",
       size |-> MAX_FILE_SIZE + 1] }
Payloads ==
    [audio : Uploads, audio_base64 : {None}]
        \cup [audio : {NoUpload}, audio_base64 : {"YQ==", "abc", "@@@@", None}]
NoPayload == [audio |-> NoUpload, audio_base64 |-> None]

\* No call of send_transcription_result yet
NoDelivery == [ret |-> FALSE, raised |-> "not called", posts |-> 0, slept |-> 0]

\* A request as FastAPI received it.  pc: "received" (dependencies not yet
\* resolved), "handler" (transcribe_audio entered), "executor" (awaiting
\* run_in_executor, the call waiting for a worker), "running" (a worker of the
\* executor is in the transcription call), "delivering" (awaiting
\* send_transcription_result), "responded".  `status` is the "status" field of
\* the response body, `delivery` what send_transcription_result came to.
NewRequest ==
    [pc |-> "received", api_key |-> None, store_ok |-> TRUE, key_doc |-> NoDoc,
     payload |-> NoPayload, io_ok |-> TRUE, engine |-> NoEngine,
     transcription |-> "none", text |-> "", language |-> "pt", duration |-> 0,
     webhook_success |-> FALSE, status_code |-> 0, detail |-> "",
     transcription_id |-> "", engine_calls |-> 0, result_posts |-> 0,
     slept |-> 0, error_notifications |-> 0, temp_files |-> 0,
     status |-> "", delivery |-> NoDelivery]

\* Two requests in flight side by side, so that what one client is answered
\* can be compared with what another is answered.
Requests == {"a", "b"}

\* What the handler can observe of a WebhookService call: what it returned or
\* raised, how many POSTs it issued and how long it slept in all.
Observed(res) ==
    [ret |-> res.ret, raised |-> res.raised, posts |-> Len(res.posts),
     slept |-> SumSeq(res.sleeps)]

\* What one call of send_transcription_result can come to with n retries, and
\* one call of send_error_notification, over everything the endpoint can do
DeliveryResults ==
    [n \in 0 .. MaxRetries |->
        {Observed(send_transcription_result(n, outs)) :
            outs \in [1 .. n + 1 -> Outcomes]}]
ErrorNotifications == {Observed(send_error_notification(o)) : o \in Outcomes}

\* The response that ends the request
Responded(rq, status_code, detail) ==
    [rq EXCEPT !.pc = "responded", !.status_code = status_code, !.detail = detail]

\* `except Exception` of transcribe_audio: notify, then the generic 500.  If
\* the notification itself raised, the exception leaves the handler and the
\* server answers 500 on its own.
unexpected_error_Leaky(rq, sent) ==
    Responded([rq EXCEPT !.error_notifications = @ + 1], 500,
              "Internal server error: " \o OSErrorText)
unexpected_error(rq, sent) ==
    LET rq1 == [rq EXCEPT !.error_notifications = @ + 1]
    IN IF sent.raised = "none"
       THEN Responded(rq1, 500, "Internal server error during transcription")
       ELSE Responded(rq1, 500, "Internal Server Error")

\* `await webhook_service.send_error_notification(...)` followed by
\* `raise HTTPException(status_code, detail)`
notify_and_raise_Silent(rq, sent, sent2, status_code, detail) ==
    Responded(rq, status_code, detail)
notify_and_raise(rq, sent, sent2, status_code, detail) ==
    LET rq1 == [rq EXCEPT !.error_notifications = @ + 1]
    IN IF sent.raised = "none"
       THEN Responded(rq1, status_code, detail)
       ELSE unexpected_error(rq1, sent2)

UnsupportedTypeDetail(audio) ==
    LET mime_from_ext == get_mime_from_extension(audio.filename)
    IN "Unsupported audio type. Received: content_type='" \o Shown(audio.content_type)
       \o "', filename='" \o Shown(audio.filename) \o "'"
       \o (IF Truthy(mime_from_ext)
           THEN ", detected_mime_from_extension='" \o mime_from_ext \o "'" ELSE "")
       \o ". Allowed types: " \o AllowedTypesShown

\* transcribe_audio from its entry to the first await on the executor: the
\* payload is p, io_ok is whether the upload could be read and written to the
\* temporary file, sent and sent2 are what the error notifications come to.
prepare(rq, p, io_ok, sent, sent2) ==
    LET audio == p.audio
        got == [rq EXCEPT !.payload = p]
    IN IF audio # NoUpload /\ Truthy(audio.filename)
       THEN IF ~validate_audio_type(audio.content_type, audio.filename)
            THEN notify_and_raise(got, sent, sent2, 400, UnsupportedTypeDetail(audio))
            ELSE IF audio.size # 0 /\ audio.size > MAX_FILE_SIZE
            THEN notify_and_raise(got, sent, sent2, 400,
                     "File too large. Maximum size: " \o IntStr(MAX_FILE_SIZE) \o " bytes")
            ELSE IF ~io_ok
            THEN unexpected_error([got EXCEPT !.io_ok = FALSE, !.temp_files = @ + 1], sent)
            ELSE IF ~validate_audio_file(temp_file_path(splitext_ext(audio.filename)),
                                         audio.size)
            THEN notify_and_raise(got, sent, sent2, 400, "Invalid audio file format or size")
            ELSE [got EXCEPT !.pc = "executor", !.temp_files = @ + 1]
       ELSE IF Truthy(p.audio_base64)
       THEN [got EXCEPT !.pc = "executor"]
       ELSE notify_and_raise(got, sent, sent2, 400,
                             "Either audio file or audio_base64 must be provided")

\* The executor runs the transcription and the handler resumes: on the file
\* path transcribe_audio_file, then the `finally` that unlinks the temporary
\* file; on the base64 path transcribe_base64_audio.  An HTTPException goes
\* through `except HTTPException: raise`.
transcribe(rq, e, io_ok) ==
    LET file == rq.payload.audio # NoUpload
        b64 == transcribe_base64_audio(rq.payload.audio_base64, io_ok, e)
        res == IF file THEN transcribe_audio_file(e) ELSE b64.res
        called == file \/ b64.called
        ran == [rq EXCEPT !.engine = IF called THEN e ELSE NoEngine,
                          !.engine_calls = IF called THEN @ + 1 ELSE @,
                          !.io_ok = IF file \/ ~b64.decoded THEN @ ELSE io_ok,
                          !.temp_files = IF file THEN @ - 1 ELSE @ + b64.left,
                          !.transcription = IF res.raised = "none"
                                            THEN "returned" ELSE "raised"]
    IN IF res.raised = "none"
       THEN [ran EXCEPT !.pc = "delivering", !.text = res.text,
                        !.language = res.language, !.duration = res.duration]
       ELSE Responded(ran, res.status_code, res.detail)

\* Lines 236-259: result delivery inside its own try/except, then the
\* response; `sent` is what send_transcription_result came to.  For
\* comparison, deliver_Strict is a handler that would answer 502 when the
\* delivery fails, deliver_Optimistic one that would always report the
\* delivery as made, deliver_Rounded one that would round the duration in the
\* identifier, deliver_FireAndForget one that would answer before the POSTs
\* are made.
deliver_Strict(rq, sent) ==
    LET webhook_success == sent.raised = "none" /\ sent.ret
        done == [rq EXCEPT !.webhook_success = webhook_success,
                           !.delivery = sent,
                           !.result_posts = @ + sent.posts,
                           !.slept = @ + sent.slept]
    IN IF webhook_success THEN Responded(done, 200, "Transcription completed")
       ELSE Responded(done, 502, "Webhook delivery failed")
deliver_FireAndForget(rq, sent) ==
    Responded([rq EXCEPT !.webhook_success = sent.raised = "none" /\ sent.ret,
                         !.delivery = sent,
                         !.status = "success",
                         !.transcription_id =
                             "trans_" \o IntStr(rq.key_doc._id) \o "_"
                             \o IntStr(rq.duration \div 1000)],
              200, "Transcription completed")
deliver_Optimistic(rq, sent) ==
    Responded([rq EXCEPT !.webhook_success = TRUE,
                         !.delivery = sent,
                         !.status = "success",
                         !.result_posts = @ + sent.posts,
                         !.slept = @ + sent.slept,
                         !.transcription_id =
                             "trans_" \o IntStr(rq.key_doc._id) \o "_"
                             \o IntStr(rq.duration \div 1000)],
              200, "Transcription completed")
deliver_Rounded(rq, sent) ==
    Responded([rq EXCEPT !.webhook_success = sent.raised = "none" /\ sent.ret,
                         !.delivery = sent,
                         !.status = "success",
                         !.result_posts = @ + sent.posts,
                         !.slept = @ + sent.slept,
                         !.transcription_id =
                             "trans_" \o IntStr(rq.key_doc._id) \o "_"
                             \o IntStr((rq.duration + 500) \div 1000)],
              200, "Transcription completed")
deliver(rq, sent) ==
    LET webhook_success == IF sent.raised = "none" THEN sent.ret ELSE FALSE
    IN Responded([rq EXCEPT !.webhook_success = webhook_success,
                            !.delivery = sent,
                            !.status = "success",
                            !.result_posts = @ + sent.posts,
                            !.slept = @ + sent.slept,
                            !.transcription_id =
                                "trans_" \o IntStr(rq.key_doc._id) \o "_"
                                \o IntStr(IF rq.duration # 0
                                          THEN rq.duration \div 1000 ELSE 0)],
                 200, "Transcription completed")

\* Depends(validate_api_key): the dependency is resolved before the handler
\* is entered; an exception from it ends the request there.
Authenticate(r) ==
    /\ req[r].pc = "received"
    /\ \E h \in CandValues, a \in CandValues, b \in CandValues, write_ok \in BOOLEAN :
          LET res == validate_api_key(api_keys, h, a, b, write_ok)
              api_key == select_api_key(h, a, b)
              seen == [req[r] EXCEPT
                          !.api_key = api_key,
                          !.store_ok = find_one(api_keys, api_key) = NoDoc \/ write_ok]
          IN /\ api_keys' = res.coll
             /\ req' = [req EXCEPT ![r] =
                          IF res.raised = "none"
                          THEN [seen EXCEPT !.pc = "handler", !.key_doc = res.key_doc]
                          ELSE Responded(seen, res.status_code, res.detail)]
    /\ UNCHANGED <<retries, call, auth, validation, deactivation>>

Prepare(r) ==
    /\ req[r].pc = "handler"
    /\ \E p \in Payloads, io_ok \in BOOLEAN,
          sent \in ErrorNotifications, sent2 \in ErrorNotifications :
          req' = [req EXCEPT ![r] = prepare(req[r], p, io_ok, sent, sent2)]
    /\ UNCHANGED <<retries, call, api_keys, auth, validation, deactivation>>

\* loop.run_in_executor(None, ...): the call is handed to the default
\* executor of the event loop, a thread pool of PoolSize workers; the handler
\* awaits, and the loop goes on serving the other requests.
Running == {r \in Requests : req[r].pc = "running"}
WorkerFree_Unbounded == TRUE
WorkerFree_Never == FALSE
WorkerFree == Cardinality(Running) < PoolSize

\* A free worker takes the call
StartTranscribe(r) ==
    /\ req[r].pc = "executor"
    /\ WorkerFree
    /\ req' = [req EXCEPT ![r].pc = "running"]
    /\ UNCHANGED <<retries, call, api_keys, auth, validation, deactivation>>

\* The call returns or raises, and the handler resumes
Transcribe(r) ==
    /\ req[r].pc = "running"
    /\ \E e \in EngineBehaviours, io_ok \in BOOLEAN :
          req' = [req EXCEPT ![r] = transcribe(req[r], e, io_ok)]
    /\ UNCHANGED <<retries, call, api_keys, auth, validation, deactivation>>

Deliver(r) ==
    /\ req[r].pc = "delivering"
    /\ \E sent \in DeliveryResults[retries] :
          req' = [req EXCEPT ![r] = deliver(req[r], sent)]
    /\ UNCHANGED <<retries, call, api_keys, auth, validation, deactivation>>

\* The store the requests meet: k1 created and active, k2 created and then
\* deactivated, k3 never created.
SeedStore ==
    deactivate_api_key(
        create_api_key(create_api_key(<<>>, "k1", "alice"), "k2", "alice"), "k2").coll

Init ==
    /\ retries \in 0 .. MaxRetries
    /\ call = NoCall
    /\ api_keys = SeedStore
    /\ auth = NoAuth
    /\ req = [r \in Requests |-> NewRequest]
    /\ validation = NoValidation
    /\ deactivation = NoDeactivation

Next ==
    \E r \in Requests :
        \/ Authenticate(r)
        \/ Prepare(r)
        \/ StartTranscribe(r)
        \/ Transcribe(r)
        \/ Deliver(r)

Spec == Init /\ [][Next]_vars

\* The event loop and the executor keep serving: while some request has a
\* step to take, a step is taken.  Nothing is assumed about which request is
\* served first.
SpecLive == Spec /\ WF_vars(Next)

InitAuth ==
    /\ retries = MaxRetries
    /\ call = NoCall
    /\ api_keys = <<>>
    /\ auth = NoAuth
    /\ req = [r \in Requests |-> NewRequest]
    /\ validation = NoValidation
    /\ deactivation = NoDeactivation

\* The admin operations build the store; then the call under observation.
NextAuth ==
    \/ ~auth.called /\ CreateApiKey
    \/ ~auth.called /\ DeactivateApiKey
    \/ CallValidateApiKey

SpecAuth == InitAuth /\ [][NextAuth]_vars

InitNotify ==
    /\ retries \in 0 .. MaxRetries
    /\ call = NoCall
    /\ api_keys = <<>>
    /\ auth = NoAuth
    /\ req = [r \in Requests |-> NewRequest]
    /\ validation = NoValidation
    /\ deactivation = NoDeactivation

NextNotify == CallSendResult \/ CallSendError

SpecNotify == InitNotify /\ [][NextNotify]_vars

InitValidate ==
    /\ retries = MaxRetries
    /\ call = NoCall
    /\ api_keys = <<>>
    /\ auth = NoAuth
    /\ req = [r \in Requests |-> NewRequest]
    /\ validation = NoValidation
    /\ deactivation = NoDeactivation

NextValidate == CallValidateAudioType

SpecValidate == InitValidate /\ [][NextValidate]_vars

(***************************************************************************)
(* Claims about the delivery notifier, under SpecNotify.                   *)
(***************************************************************************)

\* The spec's notion of a successful attempt: a response whose status is one
\* of 200, 201, 202.
AttemptSucceeded(o) == o.exc = "none" /\ o.status_code \in {200, 201, 202}

ResultCall == call.fn = "send_transcription_result"
ErrorCall == call.fn = "send_error_notification"

\* Index of the first attempt the endpoint would answer successfully, 0 if none
FirstSuccess(outs) ==
    IF \E i \in 1 .. Len(outs) : AttemptSucceeded(outs[i])
    THEN CHOOSE i \in 1 .. Len(outs) :
            /\ AttemptSucceeded(outs[i])
            /\ \A j \in 1 .. (i - 1) : ~AttemptSucceeded(outs[j])
    ELSE 0

\* C3: send_transcription_result and send_error_notification never let an
\* exception reach their caller; whatever the endpoint does to each attempt
\* (any status, timeout, connection failure, any other error) they return a
\* boolean.
C3_NeverRaises ==
    (ResultCall \/ ErrorCall) =>
        /\ call.res.raised = "none"
        /\ call.res.ret \in BOOLEAN

\* Every attempt met an error of neither named class and the call returned
C3_Witness ==
    /\ ResultCall
    /\ call.n >= 2
    /\ \A i \in 1 .. call.n : call.outs[i].exc = "Exception"
    /\ Len(call.res.posts) = call.n
    /\ call.res.raised = "none"

\* C4: for every retries value N >= 0 one call of send_transcription_result
\* issues at most N POSTs; when every attempt fails it issues exactly N and
\* returns false.
C4_AtMostRetriesAttempts ==
    ResultCall =>
        /\ Len(call.res.posts) <= call.n
        /\ (\A i \in 1 .. Len(call.res.posts) : ~AttemptSucceeded(call.res.posts[i]))
              => /\ Len(call.res.posts) = call.n
                 /\ call.res.ret = FALSE
                 /\ call.res.posts = SubSeq(call.outs, 1, call.n)

C4_Witness ==
    /\ ResultCall
    /\ call.n >= 2
    /\ \A i \in 1 .. call.n : ~AttemptSucceeded(call.outs[i])
    /\ Len(call.res.posts) = call.n
    /\ call.res.ret = FALSE

\* C5: send_transcription_result returns true iff some attempt got a status
\* in {200, 201, 202}; it returns at the first such attempt, with no further
\* attempt and no further sleep (so a first attempt answered 202 gives true
\* with no sleep at all); every other status, a connection failure and a
\* timeout are failed attempts.
C5_TrueIffFirstSuccess ==
    ResultCall =>
        LET k == FirstSuccess(SubSeq(call.outs, 1, call.n)) IN
        /\ call.res.ret = (\E i \in 1 .. Len(call.res.posts) :
                               AttemptSucceeded(call.res.posts[i]))
        /\ k > 0 => /\ call.res.ret = TRUE
                    /\ call.res.posts = SubSeq(call.outs, 1, k)
                    /\ Len(call.res.sleeps) = k - 1
        /\ k = 0 => call.res.ret = FALSE

\* The last of several attempts answered 202, the first one 204
C5_Witness ==
    /\ ResultCall
    /\ call.n >= 2
    /\ call.outs[1] = [exc |-> "none", status_code |-> 204]
    /\ call.outs[call.n] = [exc |-> "none", status_code |-> 202]
    /\ FirstSuccess(SubSeq(call.outs, 1, call.n)) = call.n
    /\ call.res.ret = TRUE
    /\ Len(call.res.posts) = call.n

\* C6: after failed attempt i (from 0) that is not the last, the notifier
\* sleeps 2^i seconds; it never sleeps after the last attempt; with N >= 1
\* attempts all failing the sleeps add up to 2^(N-1) - 1 seconds (and to 0
\* when N = 0, where there is no attempt).
C6_ExponentialBackoff ==
    ResultCall =>
        LET posts == call.res.posts
            sleeps == call.res.sleeps
            failed == Cardinality({i \in 1 .. Len(posts) : ~AttemptSucceeded(posts[i])})
            allFail == \A i \in 1 .. call.n : ~AttemptSucceeded(call.outs[i])
        IN
        /\ \A j \in 1 .. Len(sleeps) : sleeps[j] = 2 ^ (j - 1)
        /\ Len(sleeps) = IF failed = call.n /\ call.n > 0 THEN failed - 1 ELSE failed
        /\ (allFail /\ call.n >= 1) => SumSeq(sleeps) = 2 ^ (call.n - 1) - 1
        /\ (allFail /\ call.n = 0) => SumSeq(sleeps) = 0

\* Three attempts all failing: sleeps of 1 and 2 seconds, none after the third
C6_Witness ==
    /\ ResultCall
    /\ call.n = 3
    /\ \A i \in 1 .. 3 : ~AttemptSucceeded(call.outs[i])
    /\ call.res.sleeps = <<1, 2>>
    /\ SumSeq(call.res.sleeps) = 3

(***************************************************************************)
(* Claims about the authenticator and the credential store, under SpecAuth *)
(***************************************************************************)

\* A candidate that was supplied: neither absent nor the empty string
Supplied(c) == c # None /\ c # ""

\* The first supplied candidate in the order header, bearer, body
FirstSupplied(h, a, b) == IF Supplied(h) THEN h ELSE IF Supplied(a) THEN a ELSE b

\* The candidate the observed call must go by
Presented == FirstSupplied(auth.api_key_header, auth.api_key_auth, auth.api_key_body)

\* The positions of the records of `coll` that hold key k
RecordsOf(coll, k) == {i \in 1 .. Len(coll) : coll[i].key = k}
ActiveRecordsOf(coll, k) == {i \in RecordsOf(coll, k) : coll[i].active}

\* C2: when the presented key matches an active credential and the store
\* write that refreshes last_used fails, authentication still succeeds: the
\* credential record is returned and the request does not fail.
C2_WriteFailureDoesNotFailAuth ==
    (/\ auth.called
     /\ Supplied(Presented)
     /\ ActiveRecordsOf(auth.before, Presented) # {}
     /\ ~auth.write_ok)
        => /\ auth.res.raised = "none"
           /\ auth.res.key_doc.key = Presented

\* C9: authentication with a deactivated key and with a key that was never
\* created end alike: status 401, the same detail, no credential record
\* modified.
C9_DeactivatedLikeUnknown ==
    (/\ auth.called
     /\ Supplied(Presented)
     /\ ActiveRecordsOf(auth.before, Presented) = {})
        => /\ auth.res.raised = "HTTPException"
           /\ auth.res.status_code = 401
           /\ auth.res.detail = "Invalid or inactive API key"
           /\ auth.res.coll = auth.before
           /\ api_keys = auth.before

\* A call that presented a key whose only record had been deactivated
C9_Witness ==
    /\ auth.called
    /\ Supplied(Presented)
    /\ RecordsOf(auth.before, Presented) # {}
    /\ ActiveRecordsOf(auth.before, Presented) = {}
    /\ auth.res.status_code = 401

\* C10: validate_api_key goes by the first supplied candidate in the order
\* header, bearer, body.  The credential returned, and the only one whose
\* last_used is refreshed, is that candidate's, whatever the later candidates
\* hold; the body key counts only when header and bearer are both empty; with
\* all three empty the call fails with 401.
C10_HeaderBearerBodyPriority ==
    auth.called =>
        LET active == ActiveRecordsOf(auth.before, Presented) IN
        /\ ~Supplied(Presented) =>
              /\ auth.res.raised = "HTTPException"
              /\ auth.res.status_code = 401
              /\ api_keys = auth.before
        /\ (Supplied(Presented) /\ active = {}) =>
              /\ auth.res.raised = "HTTPException"
              /\ auth.res.status_code = 401
        /\ (Supplied(Presented) /\ active # {} /\ auth.write_ok) =>
              auth.res.raised = "none"
        /\ auth.res.raised = "none" =>
              /\ auth.res.key_doc.key = Presented
              /\ auth.res.key_doc._id \in active
              /\ \A i \in 1 .. Len(auth.before) :
                    api_keys[i] =
                        IF i = auth.res.key_doc._id
                        THEN [auth.before[i] EXCEPT !.last_used = utcnow]
                        ELSE auth.before[i]

\* Header, bearer and body hold three different valid keys: the header's
\* record is returned and refreshed, the other two are left alone
C10_Witness ==
    /\ auth.called
    /\ Cardinality({auth.api_key_header, auth.api_key_auth, auth.api_key_body}) = 3
    /\ \A k \in {auth.api_key_header, auth.api_key_auth, auth.api_key_body} :
          Supplied(k) /\ ActiveRecordsOf(auth.before, k) # {}
    /\ auth.res.raised = "none"
    /\ auth.res.key_doc.key = auth.api_key_header
    /\ api_keys[auth.res.key_doc._id].last_used = utcnow
    /\ \A i \in 1 .. Len(api_keys) :
          i # auth.res.key_doc._id => api_keys[i].last_used = None

(***************************************************************************)
(* The claims about POST /transcribe, under Spec.                          *)
(***************************************************************************)
Done(r) == req[r].pc = "responded"

\* The request passed validate_api_key
Authenticated(r) == req[r].key_doc # NoDoc

\* C1: whenever the transcription step of an authenticated request fails
\* (transcribe_audio_file or transcribe_base64_audio raises), exactly one
\* error notification has been issued for that request when the error
\* response is returned.
C1_TranscriptionFailureNotifiesOnce ==
    \A r \in Requests :
        (Done(r) /\ Authenticated(r) /\ req[r].transcription = "raised")
            => req[r].error_notifications = 1

\* Two requests that differ in nothing but what the webhook endpoint did:
\* the same key, the same payload, the same engine behaviour, the same luck
\* with the store write and with the temporary file.
SameButWebhook(r1, r2) ==
    /\ req[r1].api_key = req[r2].api_key
    /\ req[r1].store_ok = req[r2].store_ok
    /\ req[r1].payload = req[r2].payload
    /\ req[r1].io_ok = req[r2].io_ok
    /\ req[r1].engine = req[r2].engine

\* C7: two answered requests that differ only in how the webhook endpoint
\* responded are answered with the same HTTP status and the same text,
\* language and duration.
C7_OutcomeIndependentOfWebhook ==
    \A r1 \in Requests, r2 \in Requests :
        (Done(r1) /\ Done(r2) /\ SameButWebhook(r1, r2))
            => /\ req[r1].status_code = req[r2].status_code
               /\ req[r1].text = req[r2].text
               /\ req[r1].language = req[r2].language
               /\ req[r1].duration = req[r2].duration

\* The same transcription answered twice, delivered to the webhook once and
\* lost after every retry the other time
C7_Witness ==
    /\ Done("a") /\ Done("b") /\ SameButWebhook("a", "b")
    /\ req["a"].transcription = "returned"
    /\ req["a"].webhook_success /\ ~req["b"].webhook_success
    /\ req["a"].result_posts # req["b"].result_posts
    /\ req["a"].status_code = 200 /\ req["b"].status_code = 200
    /\ req["a"].text = req["b"].text /\ req["a"].text # ""

\* The key the request goes by matches no active record, or none was sent
FailsAuthentication(r) ==
    \/ ~Supplied(req[r].api_key)
    \/ ActiveRecordsOf(api_keys, req[r].api_key) = {}

\* C8: a request that fails authentication (no credential in any source, or
\* one that matches no active record) ends with 401, and for that request the
\* engine is never invoked and no webhook call, result or error, is made.
C8_AuthFailureShortCircuits ==
    \A r \in Requests :
        (req[r].pc # "received" /\ FailsAuthentication(r))
            => /\ Done(r)
               /\ req[r].status_code = 401
               /\ req[r].engine_calls = 0
               /\ req[r].result_posts = 0
               /\ req[r].error_notifications = 0
               /\ req[r].temp_files = 0

\* One request turned away for a deactivated key, the other for sending no
\* key at all
C8_Witness ==
    /\ Done("a") /\ Done("b")
    /\ Supplied(req["a"].api_key)
    /\ RecordsOf(api_keys, req["a"].api_key) # {}
    /\ ActiveRecordsOf(api_keys, req["a"].api_key) = {}
    /\ ~Supplied(req["b"].api_key)
    /\ req["a"].status_code = 401 /\ req["b"].status_code = 401

\* C19: one call of send_error_notification issues exactly one POST, never
\* sleeps and never retries, whatever the endpoint does to that POST; it
\* returns true iff the response to that one POST has status 200, 201 or 202.
C19_ErrorNotificationSingleShot ==
    ErrorCall =>
        /\ call.res.raised = "none"
        /\ Len(call.res.posts) = 1
        /\ call.res.posts[1] = call.outs[1]
        /\ call.res.sleeps = <<>>
        /\ call.res.ret <=> (/\ call.outs[1].exc = "none"
                             /\ call.outs[1].status_code \in {200, 201, 202})

\* An error notification answered 500, with retries configured: one POST, no
\* sleep, false
C19_Witness ==
    /\ ErrorCall
    /\ call.n = MaxRetries
    /\ call.outs[1] = [exc |-> "none", status_code |-> 500]
    /\ Len(call.res.posts) = 1
    /\ call.res.sleeps = <<>>
    /\ ~call.res.ret

(***************************************************************************)
(* The claims about the payload validator, under SpecValidate.             *)
(***************************************************************************)

\* The declared type, trimmed and lowercased, is a non-empty member of the
\* allow-list
TypeAllowed(content_type) ==
    /\ Supplied(content_type)
    /\ strip(content_type) # ""
    /\ lower(strip(content_type)) \in ALLOWED_AUDIO_TYPES

\* The extensions the table maps to an allow-listed MIME (.flac maps to
\* audio/flac, which is not allow-listed)
AllowedExtensions == {".mp3", ".wav", ".m4a", ".mp4", ".ogg"}
ExtensionAllowed(filename) ==
    Supplied(filename) /\ lower(splitext_ext(filename)) \in AllowedExtensions

\* C11: validate_audio_type returns true exactly when the trimmed, lowercased
\* content-type is a non-empty member of the allow-list or the lowercased
\* filename extension maps to an allow-listed MIME: an allow-listed type in
\* any case with whitespace around it is accepted whatever the filename, a
\* filename with such an extension is accepted whatever the content-type, and
\* the call rejects when neither holds.
C11_ValidatorAcceptsByTypeOrExtension ==
    validation.called =>
        /\ validation.result
              <=> (TypeAllowed(validation.content_type)
                      \/ ExtensionAllowed(validation.filename))
        /\ validation.base # None => validation.result
        /\ validation.filename
              \in {"sample.mp3", "voice.WAV", "memo.m4a", "clip.Mp4", "talk.ogg",
                   "my.talk.OGG"} => validation.result
        /\ (validation.base = None
              /\ validation.filename
                    \in {None, "", "song.flac", "clip.webm", "notes.txt",
                         "noextension", ".mp3", "sample.mp3.txt"})
              => ~validation.result

\* An allow-listed type in upper case with whitespace around it is accepted
\* with a filename whose extension is not recognised
C11_Witness ==
    /\ validation.called
    /\ validation.content_type = "\tAUDIO/X-M4A\r\n"
    /\ validation.filename = "clip.webm"
    /\ validation.result

(***************************************************************************)
(* The claims about the payloads of POST /transcribe, under Spec.          *)
(***************************************************************************)

\* The request carries an upload the handler treats as a file
FileUpload(r) ==
    req[r].payload.audio # NoUpload /\ Supplied(req[r].payload.audio.filename)

\* The request carries no such upload, and a base64 field
Base64Payload(r) == ~FileUpload(r) /\ Supplied(req[r].payload.audio_base64)

\* The Payload Validator accepts the upload's type
TypeAccepted(r) ==
    \/ TypeAllowed(req[r].payload.audio.content_type)
    \/ ExtensionAllowed(req[r].payload.audio.filename)

\* The upload's known size exceeds the configured maximum
TooLarge(r) == req[r].payload.audio.size > 25 * 1024 * 1024

\* The request has been handed to the executor, or is past it
ReachedTranscribing(r) ==
    \/ req[r].pc \in {"executor", "running", "delivering"}
    \/ req[r].transcription # "none"

\* C12: an authenticated file upload whose type the validator accepts and
\* whose size is within the maximum always proceeds to the transcription:
\* nothing else rejects it, whatever its filename or extension.
C12_AcceptedFileIsTranscribed ==
    \A r \in Requests :
        (/\ Authenticated(r)
         /\ FileUpload(r)
         /\ TypeAccepted(r) /\ ~TooLarge(r)
         /\ req[r].io_ok)
            => ReachedTranscribing(r)

\* Base64 as RFC 4648 has it: groups of four characters of the alphabet, the
\* last group padded with at most two "="
ValidBase64(s) ==
    /\ Len(s) % 4 = 0
    /\ \E pads \in 0 .. 2 :
          /\ pads <= Len(s)
          /\ \A i \in 1 .. Len(s) :
                IF i > Len(s) - pads THEN Char(s, i) = "="
                ELSE Char(s, i) \in Base64Alphabet

\* C13: an authenticated request whose base64 field is not valid base64 ends
\* with 400 and a detail that names the encoding, and the speech engine is
\* never invoked for it.
C13_InvalidBase64Rejected ==
    \A r \in Requests :
        (/\ Done(r) /\ Authenticated(r)
         /\ Base64Payload(r)
         /\ ~ValidBase64(req[r].payload.audio_base64))
            => /\ req[r].status_code = 400
               /\ Contains(req[r].detail, "base64")
               /\ req[r].engine_calls = 0

\* The engine raised for this request
EngineRaised(r) == req[r].engine.exc \notin {"none", "not called"}

\* The engine's exception carries the missing-dependency condition
MissingDependency(r) == Contains(lower(req[r].engine.msg), "ffmpeg")

\* C14: when the engine signals that ffmpeg is missing, the request ends with
\* status 500 and the actionable message, on the file path and on the base64
\* path and for every exception type; every other engine exception ends in a
\* transcription failure that carries the underlying message.
C14_MissingDependencyIs500 ==
    \A r \in Requests :
        (Done(r) /\ EngineRaised(r)) =>
            IF MissingDependency(r)
            THEN /\ req[r].status_code = 500
                 /\ Contains(req[r].detail, "ffmpeg is required")
                 /\ Contains(req[r].detail, "Please install ffmpeg")
            ELSE /\ req[r].status_code \in {400, 500}
                 /\ Contains(req[r].detail, req[r].engine.msg)

\* An exception that is not an HTTPException was raised inside the handler:
\* the write of the upload to the temporary file failed
UnexpectedException(r) == FileUpload(r) /\ ~req[r].io_ok

\* C15: an unanticipated exception inside the handler of an authenticated
\* request is caught at the top level, triggers exactly one error
\* notification, and is answered with 500 and a fixed generic detail that
\* holds none of the exception's text.
C15_UnexpectedErrorIsGeneric500 ==
    \A r \in Requests :
        (Done(r) /\ Authenticated(r) /\ UnexpectedException(r))
            => /\ req[r].status_code = 500
               /\ req[r].detail = "Internal server error during transcription"
               /\ ~Contains(req[r].detail, "Errno")
               /\ ~Contains(req[r].detail, "No space left")
               /\ req[r].error_notifications = 1

\* A request answered 500 after the temporary file could not be written
C15_Witness ==
    /\ Done("a") /\ Authenticated("a") /\ UnexpectedException("a")
    /\ req["a"].payload.audio.filename = "sample.mp3"
    /\ req["a"].status_code = 500
    /\ req["a"].error_notifications = 1

\* What the transcription produced for the request: the engine's text
\* trimmed, its language ("pt" when it names none), the end of its last
\* segment (0 when it has none)
ProducedText(r) == strip(req[r].engine.text)
ProducedLanguage(r) ==
    IF req[r].engine.language = None THEN "pt" ELSE req[r].engine.language
ProducedDuration(r) ==
    IF Len(req[r].engine.segments) = 0 THEN 0
    ELSE req[r].engine.segments[Len(req[r].engine.segments)]

\* C16: every successful request is answered 200 with status "success", the
\* text, language and duration produced for that request, a boolean
\* webhook_delivered, and transcription_id = "trans_" + the credential's id +
\* "_" + the duration truncated to an integer (0 when the duration is 0).
C16_SuccessResponse ==
    \A r \in Requests :
        (Done(r) /\ req[r].transcription = "returned")
            => /\ req[r].status_code = 200
               /\ req[r].status = "success"
               /\ req[r].text = ProducedText(r)
               /\ req[r].language = ProducedLanguage(r)
               /\ req[r].duration = ProducedDuration(r)
               /\ req[r].webhook_success \in BOOLEAN
               /\ \E id \in 1 .. Len(api_keys), secs \in 0 .. 9 :
                     /\ api_keys[id].key = req[r].api_key
                     /\ api_keys[id].active
                     /\ secs * 1000 <= req[r].duration
                     /\ req[r].duration < (secs + 1) * 1000
                     /\ req[r].transcription_id
                           = "trans_" \o IntStr(id) \o "_" \o IntStr(secs)

\* A file transcribed to 2.5 seconds of speech and a base64 payload
\* transcribed to nothing, both for the credential with id 1
C16_Witness ==
    /\ Done("a") /\ Done("b")
    /\ FileUpload("a") /\ Base64Payload("b")
    /\ req["a"].text = "ola mundo" /\ req["a"].duration = 2500
    /\ req["a"].transcription_id = "trans_1_2"
    /\ req["b"].text = "" /\ req["b"].language = "pt" /\ req["b"].duration = 0
    /\ req["b"].transcription_id = "trans_1_0"
    /\ req["a"].status_code = 200 /\ req["b"].status_code = 200

\* C17: after a successful transcription webhook_delivered is true exactly
\* when send_transcription_result returned true; when it returned false or
\* raised, the request still ends with 200 and status "success", with
\* webhook_delivered false and no error notification.
C17_WebhookDeliveredReportsDelivery ==
    \A r \in Requests :
        (Done(r) /\ req[r].transcription = "returned")
            => /\ req[r].delivery # NoDelivery
               /\ req[r].webhook_success
                     <=> (req[r].delivery.raised = "none" /\ req[r].delivery.ret)
               /\ req[r].status_code = 200
               /\ req[r].status = "success"
               /\ req[r].error_notifications = 0

\* A transcription whose delivery failed on every one of three attempts
C17_Witness ==
    /\ retries = 3
    /\ Done("a") /\ req["a"].transcription = "returned"
    /\ req["a"].delivery.raised = "none" /\ ~req["a"].delivery.ret
    /\ req["a"].result_posts = 3
    /\ ~req["a"].webhook_success
    /\ req["a"].status_code = 200
    /\ req["a"].error_notifications = 0

\* C18: while a transcription is executing the other requests can still be
\* authenticated, validated and answered; the transcriptions executing at
\* the same time never exceed the size of the worker pool, and a further
\* transcription waits until a worker is free.
C18_TranscriptionOffLoopAndPooled ==
    /\ Cardinality({r \in Requests : req[r].pc = "running"}) <= PoolSize
    /\ \A r \in Requests, o \in Requests :
          (req[r].pc = "running" /\ o # r) =>
              /\ req[o].pc = "received" => ENABLED Authenticate(o)
              /\ req[o].pc = "handler" => ENABLED Prepare(o)
              /\ req[o].pc = "delivering" => ENABLED Deliver(o)
              /\ (/\ req[o].pc = "executor"
                  /\ Cardinality({w \in Requests : req[w].pc = "running"}) >= PoolSize)
                    => ~ENABLED StartTranscribe(o)
    /\ \A r \in Requests :
          req[r].pc = "running" => ENABLED Transcribe(r)

\* One transcription executing while the other request's waits for the worker
C18_Witness ==
    /\ req["a"].pc = "running"
    /\ req["b"].pc = "executor"
    /\ ~ENABLED StartTranscribe("b")
    /\ ENABLED Transcribe("a")

\* C20: an authenticated file upload whose type the validator rejects, or
\* whose known size exceeds the maximum, ends with 400 after exactly one
\* error notification; the speech engine is never invoked and no result is
\* delivered for it.
C20_RejectedUploadNotifiesOnce ==
    \A r \in Requests :
        (/\ Done(r) /\ Authenticated(r)
         /\ FileUpload(r)
         /\ (~TypeAccepted(r) \/ TooLarge(r)))
            => /\ req[r].status_code = 400
               /\ req[r].error_notifications = 1
               /\ req[r].engine_calls = 0
               /\ req[r].result_posts = 0
               /\ req[r].delivery = NoDelivery

\* One upload turned away for its type, the other for its size
C20_Witness ==
    /\ Done("a") /\ Done("b")
    /\ Authenticated("a") /\ Authenticated("b")
    /\ FileUpload("a") /\ ~TypeAccepted("a")
    /\ FileUpload("b") /\ TypeAccepted("b") /\ TooLarge("b")
    /\ req["a"].status_code = 400 /\ req["b"].status_code = 400
    /\ req["a"].error_notifications = 1 /\ req["b"].error_notifications = 1

\* C21: an authenticated request that carries neither a file nor a base64
\* field ends with 400 without invoking the speech engine and without making
\* any webhook call, result or error.
C21_NoPayloadMakesNoWebhookCall ==
    \A r \in Requests :
        (/\ Done(r) /\ Authenticated(r)
         /\ ~FileUpload(r) /\ ~Base64Payload(r))
            => /\ req[r].status_code = 400
               /\ req[r].engine_calls = 0
               /\ req[r].result_posts = 0
               /\ req[r].error_notifications = 0

\* C24: every temporary file created while handling a request has been
\* deleted by the time the request is answered, on every path.
C24_TemporaryFilesDeleted ==
    \A r \in Requests : Done(r) => req[r].temp_files = 0

\* The sleeps of a delivery whose every attempt failed: 1 + 2 + ... over
\* the attempts but the last
RECURSIVE AllBackoff(_)
AllBackoff(n) == IF n <= 1 THEN 0 ELSE AllBackoff(n - 1) + 2 ^ (n - 2)

\* No webhook attempt is made for a request once it has been answered
NoAttemptAfterResponse ==
    \A r \in Requests :
        Done(r) => /\ req'[r].result_posts = req[r].result_posts
                   /\ req'[r].error_notifications = req[r].error_notifications
                   /\ req'[r].slept = req[r].slept

\* C25: on the success path the response is produced only after
\* send_transcription_result has returned: the attempts and sleeps of the
\* delivery precede it, all `retries` attempts and all retries - 1 sleeps when
\* every attempt fails, and no webhook attempt of a request follows its
\* response.
C25_ResponseAfterDelivery ==
    /\ [](\A r \in Requests :
            /\ req[r].pc = "delivering" => req[r].status_code = 0
            /\ (Done(r) /\ req[r].transcription = "returned") =>
                  /\ req[r].delivery # NoDelivery
                  /\ req[r].result_posts = req[r].delivery.posts
                  /\ req[r].slept = req[r].delivery.slept
                  /\ ~req[r].delivery.ret =>
                        /\ req[r].result_posts = retries
                        /\ req[r].slept = AllBackoff(retries))
    /\ [][NoAttemptAfterResponse]_vars

\* One request answered after three failed attempts and 1 + 2 seconds of
\* sleep, the other still awaiting its delivery, unanswered
C25_Witness ==
    /\ retries = 3
    /\ Done("a") /\ req["a"].transcription = "returned"
    /\ ~req["a"].delivery.ret
    /\ req["a"].result_posts = 3 /\ req["a"].slept = 3
    /\ req["b"].pc = "delivering" /\ req["b"].status_code = 0
    /\ req["b"].result_posts = 0

\* A request, once answered, stays as it was answered
AnsweredOnce == \A r \in Requests : Done(r) => req'[r] = req[r]

\* C26: when every store call, engine call and webhook POST comes to an end,
\* every request is eventually answered, exactly once, with a status among
\* 200, 400, 401 and 500, whatever the retries value and however the requests
\* interleave.
C26_EveryRequestAnswered ==
    /\ <>(\A r \in Requests : Done(r))
    /\ [](\A r \in Requests : Done(r) => req[r].status_code \in {200, 400, 401, 500})
    /\ [][AnsweredOnce]_vars

\* Both requests answered, one with 200 after its transcription waited for
\* the worker, the other with 500
C26_Witness ==
    /\ Done("a") /\ Done("b")
    /\ req["a"].status_code = 200 /\ req["a"].engine_calls = 1
    /\ req["b"].status_code = 500 /\ req["b"].engine_calls = 1

(***************************************************************************)
(* The claims about the life of a credential, under SpecAuth.              *)
(***************************************************************************)

RecordsStayDeactivated ==
    \A i \in 1 .. Len(api_keys) :
        /\ i <= Len(api_keys')
        /\ api_keys'[i].key = api_keys[i].key
        /\ ~api_keys[i].active => ~api_keys'[i].active

\* Key k had been deactivated in `coll`
DeactivatedIn(coll, k) == \E i \in RecordsOf(coll, k) : ~coll[i].active

\* The observed authentication fails with 401
AuthFails401 == auth.res.raised = "HTTPException" /\ auth.res.status_code = 401

\* A repeated deactivate_api_key of the same key returns false
RepeatedDeactivationReturnsFalse ==
    (deactivation.called /\ deactivation.repeated) => ~deactivation.ret

C23_DeactivationIrreversibleForUniqueKey ==
    /\ [][RecordsStayDeactivated]_vars
    /\ [](/\ (/\ auth.called
              /\ Supplied(Presented)
              /\ DeactivatedIn(auth.before, Presented)
              /\ Cardinality(RecordsOf(auth.before, Presented)) = 1) => AuthFails401
          /\ RepeatedDeactivationReturnsFalse)

\* A key created once, deactivated twice (the second call returning false),
\* then presented: 401, the record still there and still inactive
C23_Witness ==
    /\ deactivation.called /\ deactivation.repeated /\ ~deactivation.ret
    /\ auth.called
    /\ Presented = deactivation.api_key
    /\ Cardinality(RecordsOf(api_keys, Presented)) = 1
    /\ DeactivatedIn(api_keys, Presented)
    /\ AuthFails401

====
